---- MODULE Spec2Model ----
(***************************************************************************)
(* State-machine model of scripts/throttler_data_collection.py: the        *)
(* harness that launches a containerised workload, optionally a telemetry  *)
(* sidecar, pumps the workload output into docker_output.log under a       *)
(* deadline, tears both processes down, prepends the throttler-count delta *)
(* to the log and finally resets the counters with tt-smi.                 *)
(*                                                                         *)
(* One action per program step; the environment (workload, sidecar,        *)
(* devices, clock, operator) has its own actions.                          *)
(***************************************************************************)
EXTENDS Integers, Sequences, FiniteSets, TLC

(***************************************************************************)
(* Bounds of the model.                                                    *)
(***************************************************************************)
\* --timeout is a float number of minutes; the model draws it in quarters
\* of a minute, 1..MaxQuarters
MaxQuarters == 2
\* the workload produces at most MaxLines lines of output
MaxLines == 2
\* the throttle event count of the hardware ranges over 0..MaxCount
MaxCount == 1
\* seconds by which one Tick of the wall clock advances time.time()
TickSec == 15

(***************************************************************************)
(* Program constants.                                                      *)
(***************************************************************************)
throttler_name ==
    << "Fmax", "TDP", "FastTDC", "TDC", "Thm", "BoardPower", "Voltage",
       "GDDRThm", "DopplerSlow", "DopplerCritical" >>
NUM_THROTTLERS == 10
model_name == {"llama", "wan"}
product_types == {"p150", "p300", "galaxy"}
test_choices == {"all", "read_throttler_count", "read_telemetry", "get_throttler_count"}
\* time.sleep(2): the confirmation window of the telemetry script
ConfirmSec == 2
\* seconds in a minute (timeout_min * 60)
MinuteSec == 60

ThrottlerNames == {throttler_name[i] : i \in 1..NUM_THROTTLERS}

\* Python's None and a present value, for before_counts / after_counts
None == [some |-> FALSE, val |-> << >>]
\* no pure function has been applied
NoCall == [op |-> "none"]
Some(v) == [some |-> TRUE, val |-> v]

VARIABLES
    \* command line (argparse, main)
    arg,            \* args.test
    model,          \* args.model
    product_type,   \* args.product_type
    timeout_min4,   \* args.timeout, in quarters of a minute
    \* control
    pc,             \* program point of the harness
    exc,            \* exception pending while the finally block runs
    exitCode,       \* exit code of the harness process, -1 while it runs
    exitWhy,        \* what ended the harness process
    \* locals of main and run_metal_test
    main_before,    \* before_counts of main
    before_counts,  \* before_counts of run_metal_test
    docker_process, \* workload handle and process state
    telem_proc,     \* "None" or "set": the local telem_proc
    start_time,     \* time.time() at the start of the polling loop
    log,            \* lines of docker_output.log
    \* environment
    wlForever,      \* the workload never exits on its own
    pipe,           \* lines produced by the workload and not yet read
    produced,       \* number of lines the workload has produced
    sidecar,        \* state of the telemetry process
    now,            \* wall clock, seconds
    hw,             \* throttle events counted by the hardware
    \* history
    brk,            \* how the try block was left
    teardown,       \* progress of the finally block
    wlTermReq,      \* docker_process.terminate() was called
    wlKillReq,      \* docker_process.kill() was called
    scSigint,       \* SIGINT was sent to the telemetry process
    scKill,         \* telem_proc.kill() was called
    scSigWlLive,    \* SIGINT went to the sidecar while the workload ran unasked
    warned,         \* "Telemetry script exited early" was printed
    confirmed,      \* the telemetry process was alive after its 2 s window
    preFail,        \* first failed precondition
    after_none,     \* the 'after' read of run_metal_test returned None
    resetCount,     \* number of times tt-smi -r was run
    run_dir,        \* "None", or "created" once os.makedirs(run_dir) has run
    readCount,      \* number of calls of read_throttler_counts
    published,      \* the delta header was written to docker_output.log
    \* applications of the pure functions, and the base log directory
    call,           \* the last application of a pure function, with its result
    \* successive invocations of the harness on one machine
    clock,          \* datetime.now(), in ticks of 1/TicksPerSec second
    runs,           \* the invocations so far, in the order they started
    fs              \* BASE_LOG_DIR: run directory |-> its docker_output.log

inputs == << arg, model, product_type, timeout_min4, wlForever >>
ctrl == << pc, exc, exitCode, exitWhy >>
locals == << main_before, before_counts, telem_proc, start_time >>
wlvars == << docker_process, pipe, produced, log >>
envvars == << sidecar, now, hw >>
sigvars == << wlTermReq, wlKillReq, scSigint, scKill, scSigWlLive >>
histvars == << brk, teardown, warned, confirmed, preFail, after_none, resetCount >>
hist2 == << run_dir, readCount, published >>
pure == << call, clock, runs, fs >>
mainvars == << inputs, ctrl, locals, wlvars, envvars, sigvars, histvars, hist2 >>
vars == << mainvars, pure >>

(***************************************************************************)
(* Pure functions of the program.                                          *)
(***************************************************************************)
\* max_chips of read_throttler_counts
max_chips(pt) ==
    CASE pt = "p150" -> 1
      [] pt = "p300" -> 2
      [] pt = "galaxy" -> 32
      [] OTHER -> 0

\* chip.axi_read32 of throttler counter i (0-based) of one chip: counter i
\* has counted (i + 1) per throttle event (far below the 32 bits it holds)
axi_read32(asic_id, i, events) == events * (i + 1)

\* read_throttler_counts without the check of the number of chips
read_throttler_counts_any_count(pt, detected, raises, events) ==
    IF pt \notin product_types THEN None
    ELSE IF raises THEN None
    ELSE Some([asic_id \in 0..(detected - 1) |->
                 [name \in ThrottlerNames |->
                    axi_read32(asic_id,
                               (CHOOSE i \in 1..NUM_THROTTLERS : throttler_name[i] = name) - 1,
                               events)]])

\* read_throttler_counts: None on an unknown product, a chip count that
\* differs from max_chips or an exception of a read; else the full snapshot
read_throttler_counts(pt, detected, raises, events) ==
    IF pt \notin product_types THEN None
    ELSE IF detected # max_chips(pt) THEN None
    ELSE IF raises THEN None
    ELSE Some([asic_id \in 0..(detected - 1) |->
                 [name \in ThrottlerNames |->
                    axi_read32(asic_id,
                               (CHOOSE i \in 1..NUM_THROTTLERS : throttler_name[i] = name) - 1,
                               events)]])

\* telem_timeout = 45 if model == "wan" else 20
telem_timeout == IF model = "wan" THEN 45 ELSE 20

\* timeout_sec = (timeout_min * 60) - telem_timeout
timeout_sec == ((timeout_min4 * MinuteSec) \div 4) - telem_timeout

\* lines of docker_output.log
\* (ws: the line carries trailing white space before its newline)
CmdLine == [k |-> "cmd", n |-> 0, ws |-> FALSE, v |-> << >>]
OutLine(i, w) == [k |-> "out", n |-> i, ws |-> w, v |-> << >>]
EmptyLine == [k |-> "empty", n |-> 0, ws |-> FALSE, v |-> << >>]
HdrLine(asic_id, vals) == [k |-> "hdr", n |-> asic_id, ws |-> FALSE, v |-> vals]

\* line.rstrip(): the line without its trailing white space
rstrip(line) == [line EXCEPT !.ws = FALSE]

\* throttler_delta_header: the deltas in the order of throttler_name
throttler_delta_header(asic_id, delta_counts) ==
    HdrLine(asic_id, [i \in 1..NUM_THROTTLERS |-> delta_counts[throttler_name[i]]])

\* program points
PreTryPcs == {"m_start", "m_before", "r_llama", "r_run_dir", "r_before"}
TryPcs == {"t_open", "t_popen", "t_warm", "t_telem", "t_confirm", "t_clock",
           "l_poll", "l_deadline", "l_readline", "l_read"}
LoopPcs == {"l_poll", "l_deadline", "l_readline", "l_read"}
FinallyPcs == {"f_telem", "f_wait", "f_docker"}
PostPcs == {"r_delta", "m_after", "m_reset", "m_report"}

TelemModes == {"all", "read_telemetry"}
\* the snapshot modes with read_telemetry taken for one of them
CountModes_with_telemetry == {"all", "read_throttler_count", "read_telemetry"}
CountModes == {"all", "read_throttler_count"}

(***************************************************************************)
(* Initial states: the parsed command line and the environment at start.   *)
(***************************************************************************)
MainInit ==
    /\ arg \in test_choices
    /\ model \in model_name
    /\ product_type \in product_types
    /\ timeout_min4 \in 1..MaxQuarters
    /\ wlForever \in BOOLEAN
    /\ hw = 0
    /\ pc = "m_start"
    /\ exc = "none"
    /\ exitCode = -1
    /\ exitWhy = "running"
    /\ main_before = None
    /\ before_counts = None
    /\ docker_process = "None"
    /\ telem_proc = "None"
    /\ start_time = 0
    /\ log = << >>
    /\ pipe = << >>
    /\ produced = 0
    /\ sidecar = "none"
    /\ now = 0
    /\ brk = "none"
    /\ teardown = "none"
    /\ wlTermReq = FALSE
    /\ wlKillReq = FALSE
    /\ scSigint = FALSE
    /\ scKill = FALSE
    /\ scSigWlLive = FALSE
    /\ warned = FALSE
    /\ confirmed = FALSE
    /\ preFail = "none"
    /\ after_none = FALSE
    /\ resetCount = 0
    /\ run_dir = "None"
    /\ readCount = 0
    /\ published = FALSE

\* one invocation of the harness: no pure function is looked at on its own,
\* and no other invocation is followed
Init ==
    /\ MainInit
    /\ call = NoCall
    /\ clock = 0
    /\ runs = << >>
    /\ fs = << >>

\* the harness process ends with exit code `code`
Exit(code, why) ==
    /\ pc' = "exited"
    /\ exitCode' = code
    /\ exitWhy' = why

\* the first failed precondition is remembered
NotePreFail(what) == IF preFail = "none" THEN what ELSE preFail

\* what pyluwen.detect_chips() may find: all chips of the product, or one less
Detected == {max_chips(product_type), max_chips(product_type) - 1}

\* a read that finds another number of chips than the product has is a
\* topology mismatch
NoteTopology(detected) ==
    IF detected # max_chips(product_type) THEN NotePreFail("topology") ELSE preFail

(***************************************************************************)
(* main, before the workload runs.                                         *)
(***************************************************************************)
\* main: the get_throttler_count branch prints one snapshot and exits 0;
\* the other modes go on (model, command and timeout are given and valid)
main_dispatch ==
    /\ pc = "m_start"
    /\ IF arg = "get_throttler_count"
       THEN \E chips \in Detected, raises \in BOOLEAN :
              LET counts == read_throttler_counts(product_type, chips, raises, hw) IN
                /\ preFail' = NoteTopology(chips)
                /\ readCount' = readCount + 1
                /\ Exit(0, "snapshot_only")
                /\ UNCHANGED exc
       ELSE /\ pc' = "m_before"
            /\ UNCHANGED << exc, exitCode, exitWhy, preFail, readCount >>
    /\ UNCHANGED << inputs, pure, run_dir, published, locals, wlvars, envvars, sigvars,
                    brk, teardown, warned, confirmed, after_none, resetCount >>

\* main: the 'before' snapshot of main, printed; a failed read is not fatal
main_before_read ==
    /\ pc = "m_before"
    /\ IF arg \in CountModes
       THEN \E chips \in Detected, raises \in BOOLEAN :
              LET counts == read_throttler_counts(product_type, chips, raises, hw) IN
                /\ main_before' = counts
                /\ preFail' = NoteTopology(chips)
                /\ readCount' = readCount + 1
       ELSE UNCHANGED << main_before, preFail, readCount >>
    /\ pc' = "r_llama"
    /\ UNCHANGED << inputs, pure, run_dir, published, exc, exitCode, exitWhy, before_counts, telem_proc,
                    start_time, wlvars, envvars, sigvars,
                    brk, teardown, warned, confirmed, after_none, resetCount >>

\* run_metal_test: the llama model needs its weights directory
rmt_llama_dir ==
    /\ pc = "r_llama"
    /\ \E dir_exists \in BOOLEAN :
         IF model = "llama" /\ ~dir_exists
         THEN /\ preFail' = NotePreFail("llama_dir")
              /\ Exit(1, "llama_dir_missing")
         ELSE /\ pc' = "r_run_dir"
              /\ UNCHANGED << exitCode, exitWhy, preFail >>
    /\ UNCHANGED << inputs, pure, hist2, exc, locals, wlvars, envvars, sigvars,
                    brk, teardown, warned, confirmed, after_none, resetCount >>

\* run_metal_test: the run directory and the paths in it
rmt_run_dir ==
    /\ pc = "r_run_dir"
    /\ run_dir' = "created"
    /\ pc' = "r_before"
    /\ UNCHANGED << inputs, pure, readCount, published, exc, exitCode, exitWhy, locals, wlvars, envvars,
                    sigvars, histvars >>

\* run_metal_test: its own 'before' snapshot; the try block is entered next
rmt_before_read ==
    /\ pc = "r_before"
    /\ IF arg \in CountModes
       THEN \E chips \in Detected, raises \in BOOLEAN :
              LET counts == read_throttler_counts(product_type, chips, raises, hw) IN
                /\ before_counts' = counts
                /\ preFail' = NoteTopology(chips)
                /\ readCount' = readCount + 1
       ELSE UNCHANGED << before_counts, preFail, readCount >>
    /\ pc' = "t_open"
    /\ UNCHANGED << inputs, pure, run_dir, published, exc, exitCode, exitWhy, main_before, telem_proc,
                    start_time, wlvars, envvars, sigvars,
                    brk, teardown, warned, confirmed, after_none, resetCount >>

(***************************************************************************)
(* run_metal_test, the try block up to the polling loop.                   *)
(***************************************************************************)
\* an exception raised in the try block: the finally block runs with it
Raise(what, how) ==
    /\ exc' = what
    /\ brk' = how
    /\ pc' = "f_telem"

\* open(docker_log, "w") and the "Command:" line; open may fail
try_open_log ==
    /\ pc = "t_open"
    /\ \E open_ok \in BOOLEAN :
         IF open_ok
         THEN /\ log' = << CmdLine >>
              /\ pc' = "t_popen"
              /\ UNCHANGED << exc, brk >>
         ELSE /\ Raise("OSError", "open_error")
              /\ UNCHANGED log
    /\ UNCHANGED << inputs, pure, hist2, exitCode, exitWhy, locals, docker_process, pipe,
                    produced, envvars, sigvars,
                    teardown, warned, confirmed, preFail, after_none, resetCount >>

\* docker_process = subprocess.Popen(docker_cmd, ...)
try_popen ==
    /\ pc = "t_popen"
    /\ docker_process' = "running"
    /\ pc' = "t_warm"
    /\ UNCHANGED << inputs, pure, hist2, exc, exitCode, exitWhy, locals, pipe, produced, log,
                    envvars, sigvars, histvars >>

\* try_warmup without the sleep
try_warmup_no_sleep ==
    /\ pc = "t_warm"
    /\ pc' = "t_telem"
    /\ UNCHANGED << inputs, pure, hist2, exc, exitCode, exitWhy, locals, wlvars,
                    envvars, sigvars, histvars >>

\* time.sleep(telem_timeout)
try_warmup ==
    /\ pc = "t_warm"
    /\ now' = now + telem_timeout
    /\ pc' = "t_telem"
    /\ UNCHANGED << inputs, pure, hist2, exc, exitCode, exitWhy, locals, wlvars,
                    sidecar, hw, sigvars, histvars >>

\* the telemetry script is looked up and started in modes all, read_telemetry
try_telem_start ==
    /\ pc = "t_telem"
    /\ IF arg \in TelemModes
       THEN \E script_exists \in BOOLEAN :
              IF script_exists
              THEN /\ telem_proc' = "set"
                   /\ sidecar' = "running"
                   /\ pc' = "t_confirm"
                   /\ UNCHANGED << exc, brk, preFail >>
              ELSE /\ Raise("SystemExit", "sys_exit")
                   /\ preFail' = NotePreFail("telem_script")
                   /\ UNCHANGED << telem_proc, sidecar >>
       ELSE /\ pc' = "t_clock"
            /\ UNCHANGED << telem_proc, sidecar, exc, brk, preFail >>
    /\ UNCHANGED << inputs, pure, hist2, exitCode, exitWhy, main_before, before_counts,
                    start_time, wlvars, now, hw, sigvars,
                    teardown, warned, confirmed, after_none, resetCount >>

\* try_telem_confirm with telem_proc left set after the warning
try_telem_confirm_keeps_handle ==
    /\ pc = "t_confirm"
    /\ now' = now + ConfirmSec
    /\ IF sidecar # "running"
       THEN /\ warned' = TRUE
            /\ UNCHANGED confirmed
       ELSE /\ confirmed' = TRUE
            /\ UNCHANGED warned
    /\ pc' = "t_clock"
    /\ UNCHANGED << inputs, pure, hist2, exc, exitCode, exitWhy, locals, wlvars, sidecar, hw,
                    sigvars, brk, teardown, preFail, after_none, resetCount >>

\* time.sleep(2), then telem_proc.poll(): an early exit is only a warning
try_telem_confirm ==
    /\ pc = "t_confirm"
    /\ now' = now + ConfirmSec
    /\ IF sidecar # "running"
       THEN /\ warned' = TRUE
            /\ telem_proc' = "None"
            /\ UNCHANGED confirmed
       ELSE /\ confirmed' = TRUE
            /\ UNCHANGED << warned, telem_proc >>
    /\ pc' = "t_clock"
    /\ UNCHANGED << inputs, pure, hist2, exc, exitCode, exitWhy, main_before, before_counts,
                    start_time, wlvars, sidecar, hw, sigvars,
                    brk, teardown, preFail, after_none, resetCount >>

\* start_time = time.time(); timeout_sec = ...
try_start_clock ==
    /\ pc = "t_clock"
    /\ start_time' = now
    /\ pc' = "l_poll"
    /\ UNCHANGED << inputs, pure, hist2, exc, exitCode, exitWhy, main_before, before_counts,
                    telem_proc, wlvars, envvars, sigvars, histvars >>

(***************************************************************************)
(* run_metal_test, the polling loop.                                       *)
(***************************************************************************)
\* if docker_process.poll() is not None: break
loop_poll ==
    /\ pc = "l_poll"
    /\ IF docker_process # "running"
       THEN /\ brk' = "exited"
            /\ pc' = "f_telem"
       ELSE /\ pc' = "l_deadline"
            /\ UNCHANGED brk
    /\ UNCHANGED << inputs, pure, hist2, exc, exitCode, exitWhy, locals, wlvars, envvars,
                    sigvars, teardown, warned, confirmed, preFail, after_none, resetCount >>

\* loop_deadline with the terminate() call left out
loop_deadline_no_terminate ==
    /\ pc = "l_deadline"
    /\ IF now - start_time > timeout_sec
       THEN /\ brk' = "timeout"
            /\ pc' = "f_telem"
       ELSE /\ pc' = "l_readline"
            /\ UNCHANGED brk
    /\ UNCHANGED << inputs, pure, hist2, exc, exitCode, exitWhy, locals, wlvars, envvars,
                    sigvars, teardown, warned, confirmed, preFail, after_none,
                    resetCount >>

\* if time.time() - start_time > timeout_sec: terminate the container, break
loop_deadline ==
    /\ pc = "l_deadline"
    /\ IF now - start_time > timeout_sec
       THEN /\ wlTermReq' = TRUE
            /\ brk' = "timeout"
            /\ pc' = "f_telem"
       ELSE /\ pc' = "l_readline"
            /\ UNCHANGED << wlTermReq, brk >>
    /\ UNCHANGED << inputs, pure, hist2, exc, exitCode, exitWhy, locals, wlvars, envvars,
                    wlKillReq, scSigint, scKill, scSigWlLive,
                    teardown, warned, confirmed, preFail, after_none, resetCount >>

\* loop_readline that takes a line from the stream and does not write it
loop_readline_drops_line ==
    /\ pc = "l_readline"
    /\ pipe # << >> \/ docker_process # "running"
    /\ IF pipe # << >>
       THEN /\ pipe' = Tail(pipe)
            /\ UNCHANGED log
       ELSE UNCHANGED << log, pipe >>
    /\ pc' = "l_read"
    /\ UNCHANGED << inputs, pure, hist2, exc, exitCode, exitWhy, locals, docker_process,
                    produced, envvars, sigvars, histvars >>

\* line = docker_process.stdout.readline(): blocks until a line is in the
\* pipe or the pipe is at end of file (the workload is gone); a line is
\* stripped and written to the log, on "" the loop sleeps 10 ms
loop_readline ==
    /\ pc = "l_readline"
    /\ pipe # << >> \/ docker_process # "running"
    /\ IF pipe # << >>
       THEN /\ log' = Append(log, rstrip(Head(pipe)))
            /\ pipe' = Tail(pipe)
       ELSE UNCHANGED << log, pipe >>
    /\ pc' = "l_read"
    /\ UNCHANGED << inputs, pure, hist2, exc, exitCode, exitWhy, locals, docker_process,
                    produced, envvars, sigvars, histvars >>

\* remaining = docker_process.stdout.read(): blocks until end of file, then
\* returns the rest of the stream, which is written to the log as it is
loop_read_remaining ==
    /\ pc = "l_read"
    /\ docker_process # "running"
    /\ log' = log \o pipe
    /\ pipe' = << >>
    /\ pc' = "l_poll"
    /\ UNCHANGED << inputs, pure, hist2, exc, exitCode, exitWhy, locals, docker_process,
                    produced, envvars, sigvars, histvars >>

\* readline() or read() raises (the stream cannot be read or decoded):
\* nothing in run_metal_test or main catches it
loop_stream_error ==
    /\ pc \in {"l_readline", "l_read"}
    /\ Raise("StreamError", "stream_error")
    /\ UNCHANGED << inputs, pure, hist2, exitCode, exitWhy, locals, wlvars, envvars,
                    sigvars, teardown, warned, confirmed, preFail, after_none, resetCount >>

(***************************************************************************)
(* run_metal_test, the finally block.                                      *)
(***************************************************************************)
\* telem_proc.send_signal(signal.SIGINT) if a telemetry process is held
finally_telem_stop ==
    /\ pc = "f_telem"
    /\ teardown' = "running"
    /\ IF arg \in TelemModes /\ telem_proc # "None"
       THEN /\ scSigint' = TRUE
            /\ scSigWlLive' = (scSigWlLive \/ (docker_process = "running" /\ ~wlTermReq))
            /\ pc' = "f_wait"
       ELSE /\ pc' = "f_docker"
            /\ UNCHANGED << scSigint, scSigWlLive >>
    /\ UNCHANGED << inputs, pure, hist2, exc, exitCode, exitWhy, locals, wlvars, envvars,
                    wlTermReq, wlKillReq, scKill,
                    brk, warned, confirmed, preFail, after_none, resetCount >>

\* telem_proc.wait(timeout=10): returns once the process is gone; if it is
\* still alive when the 10 s are over, TimeoutExpired and telem_proc.kill()
finally_telem_wait ==
    /\ pc = "f_wait"
    /\ IF sidecar = "running"
       THEN /\ scKill' = TRUE
            /\ sidecar' = "killed"
       ELSE UNCHANGED << scKill, sidecar >>
    /\ pc' = "f_docker"
    /\ UNCHANGED << inputs, pure, hist2, exc, exitCode, exitWhy, locals, wlvars, now, hw,
                    wlTermReq, wlKillReq, scSigint, scSigWlLive, histvars >>

\* what ends the harness when an exception leaves main
ExitReason(e) ==
    CASE e = "KeyboardInterrupt" -> "interrupt"
      [] e = "SystemExit" -> "sys_exit"
      [] OTHER -> "crash"

\* if docker_process.poll() is None: docker_process.kill(); with
\* docker_process still None, .poll() raises AttributeError.  Then the
\* pending exception, if any, goes on to leave run_metal_test and main
finally_docker ==
    /\ pc = "f_docker"
    /\ IF docker_process = "None"
       THEN /\ teardown' = "aborted"
            /\ exc' = "AttributeError"
            /\ Exit(1, "crash")
            /\ UNCHANGED << docker_process, wlKillReq >>
       ELSE /\ teardown' = "done"
            /\ IF docker_process = "running"
               THEN /\ docker_process' = "killed"
                    /\ wlKillReq' = TRUE
               ELSE UNCHANGED << docker_process, wlKillReq >>
            /\ IF exc # "none"
               THEN Exit(1, ExitReason(exc))
               ELSE /\ pc' = "r_delta"
                    /\ UNCHANGED << exitCode, exitWhy >>
            /\ UNCHANGED exc
    /\ UNCHANGED << inputs, pure, hist2, locals, pipe, produced, log, envvars,
                    wlTermReq, scSigint, scKill, scSigWlLive,
                    brk, warned, confirmed, preFail, after_none, resetCount >>

(***************************************************************************)
(* run_metal_test after the finally block: the delta header.               *)
(***************************************************************************)
\* sorted(list(S)) of a set of integers
RECURSIVE sorted(_)
sorted(S) ==
    IF S = {} THEN << >>
    ELSE LET m == CHOOSE x \in S : \A y \in S : x <= y
         IN << m >> \o sorted(S \ {m})

\* a delta that takes a counter that went down for one that did not move
delta_of_clamped(before, after) ==
    [name \in ThrottlerNames |->
        IF after[name] < before[name] THEN 0 ELSE after[name] - before[name]]

\* delta = {name: after.get(name, 0) - before.get(name, 0) for name in throttler_name}
delta_of(before, after) ==
    [name \in ThrottlerNames |-> after[name] - before[name]]

\* delta_lines: one header line (ending in a newline) per chip of both snapshots
RECURSIVE delta_lines(_, _, _)
delta_lines(chip_ids, before, after) ==
    IF chip_ids = << >> THEN << >>
    ELSE LET asic_id == Head(chip_ids)
             rest == delta_lines(Tail(chip_ids), before, after)
         IN IF asic_id \notin DOMAIN before \/ asic_id \notin DOMAIN after
            THEN rest
            ELSE << throttler_delta_header(asic_id, delta_of(before[asic_id], after[asic_id])) >>
                 \o rest

\* final_header = "\n".join(delta_lines) + "\n", as the lines of the file:
\* every element of delta_lines already ends in a newline, so the join puts
\* an empty line after each of them; without any element it is one empty line
RECURSIVE final_header(_)
final_header(lines) ==
    IF lines = << >> THEN << EmptyLine >>
    ELSE IF Len(lines) = 1 THEN << Head(lines), EmptyLine >>
    ELSE << Head(lines), EmptyLine >> \o final_header(Tail(lines))

\* the delta block of run_metal_test: the 'after' read, whose result is used
\* without a check for None, and the rewrite of docker_output.log
rmt_delta ==
    /\ pc = "r_delta"
    /\ IF arg \in CountModes /\ before_counts.some
       THEN \E chips \in Detected, raises \in BOOLEAN :
              LET after_counts == read_throttler_counts(product_type, chips, raises, hw) IN
              /\ readCount' = readCount + 1
              /\
                IF ~after_counts.some
                THEN /\ after_none' = TRUE
                     /\ exc' = "AttributeError"
                     /\ Exit(1, "crash")
                     /\ UNCHANGED << log, published >>
                ELSE LET chip_ids == sorted(DOMAIN before_counts.val
                                              \cup DOMAIN after_counts.val)
                         lines == delta_lines(chip_ids, before_counts.val,
                                              after_counts.val)
                     IN /\ log' = final_header(lines) \o log
                        /\ published' = TRUE
                        /\ pc' = "m_after"
                        /\ UNCHANGED << exc, exitCode, exitWhy, after_none >>
       ELSE /\ pc' = "m_after"
            /\ UNCHANGED << exc, exitCode, exitWhy, after_none, log,
                            readCount, published >>
    /\ UNCHANGED << inputs, pure, run_dir, locals, docker_process, pipe, produced, envvars,
                    sigvars, brk, teardown, warned, confirmed, preFail, resetCount >>

(***************************************************************************)
(* main, after the workload ran.                                           *)
(***************************************************************************)
\* the 'after' snapshot of main, printed with the 'before' snapshot; the
\* result, None or not, only reaches the console
main_after_read ==
    /\ pc = "m_after"
    /\ readCount' = IF arg \in CountModes THEN readCount + 1 ELSE readCount
    /\ pc' = "m_reset"
    /\ UNCHANGED << inputs, pure, run_dir, published, exc, exitCode, exitWhy, locals, wlvars, envvars,
                    sigvars, histvars >>

\* tt_smi_reset: sys.exit(1) without the executable, RuntimeError when
\* tt-smi -r fails, else the counters are reset
main_reset ==
    /\ pc = "m_reset"
    /\ \E smi_exists \in BOOLEAN, returncode \in {0, 1} :
         IF ~smi_exists
         THEN /\ preFail' = NotePreFail("tt_smi")
              /\ Exit(1, "tt_smi_missing")
              /\ UNCHANGED << exc, resetCount, hw >>
         ELSE /\ resetCount' = resetCount + 1
              /\ IF returncode # 0
                 THEN /\ exc' = "RuntimeError"
                      /\ Exit(1, "crash")
                      /\ UNCHANGED hw
                 ELSE /\ hw' = 0
                      /\ pc' = "m_report"
                      /\ UNCHANGED << exc, exitCode, exitWhy >>
              /\ UNCHANGED preFail
    /\ UNCHANGED << inputs, pure, hist2, locals, wlvars, sidecar, now, sigvars,
                    brk, teardown, warned, confirmed, after_none >>

\* print("All files are in: ..."), and main returns: exit code 0
main_report ==
    /\ pc = "m_report"
    /\ Exit(0, "done")
    /\ UNCHANGED << inputs, pure, hist2, exc, locals, wlvars, envvars, sigvars, histvars >>

\* Ctrl-C: KeyboardInterrupt is raised where the harness is.  In the try
\* block the finally block runs first; in the finally block the rest of
\* it is skipped; __main__ catches it and exits with code 1
keyboard_interrupt ==
    /\ pc # "exited"
    /\ IF pc \in TryPcs
       THEN /\ Raise("KeyboardInterrupt", "interrupt")
            /\ UNCHANGED << exitCode, exitWhy, teardown >>
       ELSE /\ exc' = "KeyboardInterrupt"
            /\ Exit(1, "interrupt")
            /\ teardown' = IF pc \in FinallyPcs THEN "aborted" ELSE teardown
            /\ UNCHANGED brk
    /\ UNCHANGED << inputs, pure, hist2, locals, wlvars, envvars, sigvars,
                    warned, confirmed, preFail, after_none, resetCount >>

(***************************************************************************)
(* The environment.                                                        *)
(***************************************************************************)
\* the text the workload prints: its i-th line, the first and every second
\* one after it with trailing white space
WorkloadLine(i) == OutLine(i, i % 2 = 1)

\* the workload writes a line to its stdout
workload_output ==
    /\ pc # "exited"
    /\ docker_process = "running"
    /\ produced < MaxLines
    /\ pipe' = Append(pipe, WorkloadLine(produced + 1))
    /\ produced' = produced + 1
    /\ UNCHANGED << inputs, pure, hist2, ctrl, locals, docker_process, log, envvars,
                    sigvars, histvars >>

\* the workload exits on its own, with any exit code (the harness only ever
\* asks poll() whether there is one)
workload_exit ==
    /\ pc # "exited"
    /\ docker_process = "running"
    /\ ~wlForever
    /\ docker_process' = "exited"
    /\ UNCHANGED << inputs, pure, hist2, ctrl, locals, pipe, produced, log, envvars,
                    sigvars, histvars >>

\* the workload dies of the SIGTERM of docker_process.terminate()
workload_terminated ==
    /\ pc # "exited"
    /\ docker_process = "running"
    /\ wlTermReq
    /\ docker_process' = "killed"
    /\ UNCHANGED << inputs, pure, hist2, ctrl, locals, pipe, produced, log, envvars,
                    sigvars, histvars >>

\* the telemetry process exits, on its own or on SIGINT
sidecar_exit ==
    /\ pc # "exited"
    /\ sidecar = "running"
    /\ sidecar' = "exited"
    /\ UNCHANGED << inputs, pure, hist2, ctrl, locals, wlvars, now, hw,
                    sigvars, histvars >>

\* time passes while the polling loop runs (later time changes nothing
\* once the deadline has passed)
Tick ==
    /\ pc \in LoopPcs
    /\ now - start_time <= timeout_sec
    /\ now' = now + TickSec
    /\ UNCHANGED << inputs, pure, hist2, ctrl, locals, wlvars, sidecar, hw,
                    sigvars, histvars >>

\* the hardware throttles while the workload runs
hw_throttle ==
    /\ pc # "exited"
    /\ docker_process = "running"
    /\ hw < MaxCount
    /\ hw' = hw + 1
    /\ UNCHANGED << inputs, pure, hist2, ctrl, locals, wlvars, sidecar, now,
                    sigvars, histvars >>

(***************************************************************************)
(* Specifications.                                                         *)
(***************************************************************************)
\* the steps of the harness itself
HarnessStep ==
    \/ main_dispatch
    \/ main_before_read
    \/ rmt_llama_dir
    \/ rmt_run_dir
    \/ rmt_before_read
    \/ try_open_log
    \/ try_popen
    \/ try_warmup
    \/ try_telem_start
    \/ try_telem_confirm
    \/ try_start_clock
    \/ loop_poll
    \/ loop_deadline
    \/ loop_readline
    \/ loop_read_remaining
    \/ finally_telem_stop
    \/ finally_telem_wait
    \/ finally_docker
    \/ rmt_delta
    \/ main_after_read
    \/ main_reset
    \/ main_report

Next ==
    \/ HarnessStep
    \/ loop_stream_error
    \/ keyboard_interrupt
    \/ workload_output
    \/ workload_exit
    \/ workload_terminated
    \/ sidecar_exit
    \/ Tick
    \/ hw_throttle

Spec == Init /\ [][Next]_vars

\* the interpreter keeps running the harness, and time keeps passing; the
\* workload, the sidecar, the devices and the operator owe nothing
FairSpec == Spec /\ WF_vars(HarnessStep) /\ WF_vars(Tick)

(***************************************************************************)
(* The states of the workload controller, read off the program.            *)
(***************************************************************************)
\* the workload was launched and the polling loop has not started
Starting == pc \in {"t_warm", "t_telem", "t_confirm", "t_clock"}
\* the polling loop runs
Running == pc \in LoopPcs
\* the loop was left because the workload had exited
Completed == brk = "exited"
\* the loop was left because the deadline had passed
TimedOut == brk = "timeout"
\* the loop was left because the output stream could not be read
Errored == brk = "stream_error"
\* the operator interrupted the try block
Interrupted == brk = "interrupt"
\* control has left run_metal_test after its try block was entered
LeftRun == pc \notin (TryPcs \cup FinallyPcs) /\ teardown # "none"

(***************************************************************************)
(* Claims.                                                                 *)
(***************************************************************************)
\* C1: timeout enforcement.  With a workload that never exits on its own,
\* a polling loop that has started is always left by the timeout branch,
\* which requests the termination of the workload (unless the operator or
\* a stream error ends the loop first): the controller never stays blocked
\* in a read of the output while the deadline has passed.
C1_TimeoutEnforced ==
    (wlForever /\ pc = "l_poll")
        ~> ((TimedOut /\ wlTermReq) \/ Interrupted \/ Errored)

\* C2: no process leak.  Whenever control has left run_metal_test after the
\* try block was entered, the teardown has run to its end and the workload
\* process is not running.
C2_NoProcessLeak ==
    LeftRun => (teardown = "done" /\ docker_process # "running")

\* C3: the counter reset runs exactly once and last.  tt-smi -r is never run
\* twice, nothing but the final report follows it, and a harness that ends
\* after a run outcome (Completed, TimedOut, Errored, interrupted) has run it
\* once.
C3_ResetOnceAndLast ==
    /\ resetCount <= 1
    /\ (resetCount = 1 => pc \in {"m_report", "exited"})
    /\ ((pc = "exited" /\ (Completed \/ TimedOut \/ Errored \/ Interrupted))
          => resetCount = 1)

\* C4: the controller state machine.  Every run that launches the workload
\* reaches one of the terminal states Completed, TimedOut, Errored (unless
\* the operator interrupts it); it does not stay in Starting or Running.
C4_ReachesTerminalState ==
    Starting ~> (Completed \/ TimedOut \/ Errored \/ Interrupted
                    \/ exitWhy = "interrupt")

\* C5: precondition failures are fatal before launch.  In a mode that
\* launches a workload, once a precondition has failed (topology mismatch of
\* a 'before' snapshot, model directory, telemetry script or tt-smi missing)
\* no workload and no sidecar process has been launched, and the harness
\* ends with a non-zero exit code.
C5_PreconditionFatalBeforeLaunch ==
    (preFail # "none" /\ arg # "get_throttler_count")
        => /\ docker_process = "None"
           /\ sidecar = "none"
           /\ (pc = "exited" => exitCode # 0)

\* C6 as stated: a timeout is the only event on which the harness signals a
\* still-running workload, and the sidecar is never sent its stop signal
\* while the workload is running and has not been asked to terminate.
C6_TimeoutOnlyCancellation ==
    /\ ((wlTermReq \/ wlKillReq) => TimedOut)
    /\ ~scSigWlLive

\* C6, amended: only the timeout branch of the polling loop requests the
\* termination of the workload; the teardown force-kills a workload that is
\* still running after a timeout, an operator interruption, a stream error
\* or a sys.exit in the try block.  In every run in which the deadline
\* fires, the termination request precedes the first stop signal to the
\* sidecar; the sidecar is signalled while the workload runs unasked only
\* after an operator interruption or a stream error.
C6_CancellationOrder ==
    /\ (wlTermReq => TimedOut)
    /\ (wlKillReq => (TimedOut \/ Interrupted \/ Errored \/ brk = "sys_exit"))
    /\ (TimedOut => (wlTermReq /\ ~scSigWlLive))
    /\ (scSigWlLive => (Interrupted \/ Errored))

\* the deadline fired, the workload was asked to terminate and the sidecar
\* was then sent its stop signal
C6_Witness == TimedOut /\ wlTermReq /\ scSigint /\ teardown = "done"

\* C7: two-phase shutdown of the sidecar.  The sidecar is never force-killed
\* without a prior SIGINT, and when the harness exits after a run whose
\* sidecar passed its start-up confirmation, the sidecar was sent SIGINT and
\* is not running.
C7_SidecarTwoPhaseShutdown ==
    /\ (scKill => scSigint)
    /\ ((pc = "exited" /\ confirmed) => (scSigint /\ sidecar # "running"))

\* C8: an early exit of the sidecar is not fatal.  Once the warning is
\* printed, the harness holds no telemetry process and never signals the
\* exited sidecar; the workload, launched once, is asked to terminate only
\* by the timeout branch; and the harness does not leave with the sys.exit
\* of the telemetry set-up.
C8_EarlyExitNonFatal ==
    warned =>
        /\ telem_proc = "None"
        /\ sidecar = "exited"
        /\ ~scSigint /\ ~scKill
        /\ docker_process # "None"
        /\ (wlTermReq => TimedOut)
        /\ pc \notin (PreTryPcs \cup {"t_open", "t_popen", "t_warm", "t_telem", "t_confirm"})
        /\ exitWhy # "sys_exit"

\* the sidecar had exited early and the run still went to its normal end
C8_Witness == warned /\ pc = "exited" /\ exitWhy = "done" /\ exitCode = 0

\* C9: a failed 'after' snapshot is not fatal.  When the 'after' read of a
\* run whose 'before' snapshot succeeded returns None, the harness does not
\* crash, and when it ends (not interrupted, tt-smi present) the counter
\* reset was run.
C9_AfterFailureNotFatal ==
    after_none =>
        /\ exitWhy # "crash"
        /\ ((pc = "exited" /\ exitWhy \notin {"interrupt", "tt_smi_missing"})
              => resetCount = 1)

\* C10: a stream error is recovered locally.  When the harness ends after a
\* read of the workload output raised (and the operator did not interrupt,
\* tt-smi is present), it ended normally, after the counter reset and the
\* report of the run directory.
C10_StreamErrorRecovered ==
    (Errored /\ pc = "exited" /\ exitWhy \notin {"interrupt", "tt_smi_missing"})
        => (exitWhy = "done" /\ resetCount = 1)

\* C11: exit codes.  The harness exits with code 0 only if no precondition
\* failed (topology, model directory, telemetry script, tt-smi) and the
\* operator did not interrupt it, in every mode, snapshot-only included.
C11_ExitCodes ==
    pc = "exited" =>
        (exitCode = 0 => (preFail = "none" /\ exitWhy # "interrupt"))

(***************************************************************************)
(* Successive invocations of the harness: the run directory of each and    *)
(* the docker_output.log in it (sanitize_folder_name, run_metal_test).     *)
(***************************************************************************)
\* invocations followed, and ticks the wall clock makes
MaxRuns == 2
MaxClock == 3
\* clock ticks per second: datetime.now() is finer than the %S of strftime
TicksPerSec == 2
\* [:30], the longest safe_model
MaxSafeLen == 30

\* the characters of the labels argparse lets through (choices=model_name)
label_chars(m) ==
    CASE m = "llama" -> << "l", "l", "a", "m", "a" >>
      [] m = "wan" -> << "w", "a", "n" >>

UpperCase == << "A", "B", "C", "D", "E", "F", "G", "H", "I", "J", "K", "L", "M",
               "N", "O", "P", "Q", "R", "S", "T", "U", "V", "W", "X", "Y", "Z" >>
LowerCase == << "a", "b", "c", "d", "e", "f", "g", "h", "i", "j", "k", "l", "m",
               "n", "o", "p", "q", "r", "s", "t", "u", "v", "w", "x", "y", "z" >>
Digits == << "0", "1", "2", "3", "4", "5", "6", "7", "8", "9" >>

\* str.lower() of one character
lower(c) ==
    IF \E i \in 1..Len(UpperCase) : UpperCase[i] = c
    THEN LowerCase[CHOOSE i \in 1..Len(UpperCase) : UpperCase[i] = c]
    ELSE c

\* \w of the regular expression: a letter, a digit or the underscore
is_word(c) ==
    \/ \E i \in 1..Len(LowerCase) : LowerCase[i] = c \/ UpperCase[i] = c
    \/ \E i \in 1..Len(Digits) : Digits[i] = c
    \/ c = "_"

\* strftime("%Y%m%d_%H%M%S") of datetime.now(): whole seconds
strftime(t) == t \div TicksPerSec

\* sanitize_folder_name: the lowered label without its non-word characters,
\* cut to 30 characters, and the time stamp of the call
sanitize_folder_name(chars, t) ==
    LET lowered == [i \in 1..Len(chars) |-> lower(chars[i])]
        words == SelectSeq(lowered, is_word)
        safe_model == SubSeq(words, 1, IF Len(words) < MaxSafeLen
                                       THEN Len(words) ELSE MaxSafeLen)
    IN [safe_model |-> safe_model, timestamp |-> strftime(t)]

\* a line of docker_output.log: line n written by invocation `run`
\* (0: the Command: line, -1: the delta header)
RunLine(run, n) == [run |-> run, n |-> n]

\* run_metal_test of a new invocation: run_dir is named and made
\* (os.makedirs with exist_ok=True takes a directory that is there)
rd_invoke ==
    /\ Len(runs) < MaxRuns
    /\ \E m \in model_name :
         LET rd == sanitize_folder_name(label_chars(m), clock) IN
           /\ runs' = Append(runs, [model |-> m, run_dir |-> rd,
                                    at |-> "made", wrote |-> 0])
           /\ fs' = IF rd \in DOMAIN fs THEN fs ELSE fs @@ (rd :> << >>)
    /\ UNCHANGED << mainvars, call, clock >>

\* open(docker_log, "w"): the file is made or emptied, then the Command:
\* line is written
rd_open_log ==
    /\ \E i \in 1..Len(runs) :
         /\ runs[i].at = "made"
         /\ fs' = [fs EXCEPT ![runs[i].run_dir] = << RunLine(i, 0) >>]
         /\ runs' = [runs EXCEPT ![i].at = "open"]
    /\ UNCHANGED << mainvars, call, clock >>

\* f.write of one line of the workload
rd_write ==
    /\ \E i \in 1..Len(runs) :
         /\ runs[i].at = "open"
         /\ runs[i].wrote < MaxLines
         /\ fs' = [fs EXCEPT ![runs[i].run_dir] =
                       Append(@, RunLine(i, runs[i].wrote + 1))]
         /\ runs' = [runs EXCEPT ![i].wrote = @ + 1]
    /\ UNCHANGED << mainvars, call, clock >>

\* the with block is left; the log is read and written again under the
\* delta header
rd_publish ==
    /\ \E i \in 1..Len(runs) :
         /\ runs[i].at = "open"
         /\ fs' = [fs EXCEPT ![runs[i].run_dir] = << RunLine(i, -1) >> \o @]
         /\ runs' = [runs EXCEPT ![i].at = "done"]
    /\ UNCHANGED << mainvars, call, clock >>

\* the wall clock
rd_tick ==
    /\ clock < MaxClock
    /\ clock' = clock + 1
    /\ UNCHANGED << mainvars, call, runs, fs >>

\* the command line of the invocation the other variables follow is of no
\* account here
RunDirInit ==
    /\ MainInit
    /\ arg = "all" /\ model = "wan" /\ product_type = "p150"
    /\ timeout_min4 = 1 /\ wlForever = FALSE
    /\ call = NoCall
    /\ clock = 0
    /\ runs = << >>
    /\ fs = << >>

RunDirNext ==
    \/ rd_invoke
    \/ rd_open_log
    \/ rd_write
    \/ rd_publish
    \/ rd_tick

RunDirSpec == RunDirInit /\ [][RunDirNext]_vars

\* C12: run directory exclusivity.  Each invocation gets a run directory that
\* no earlier invocation used, and every line an invocation wrote to its
\* docker_output.log stays in that file whatever later invocations do.
C12_RunDirExclusive ==
    /\ \A i, j \in 1..Len(runs) : i < j => runs[i].run_dir # runs[j].run_dir
    /\ \A i \in 1..Len(runs) :
         runs[i].at # "made" =>
           \A k \in 0..runs[i].wrote :
             \E p \in 1..Len(fs[runs[i].run_dir]) :
               fs[runs[i].run_dir][p] = RunLine(i, k)

(***************************************************************************)
(* The functions on snapshots, applied on their own: read_throttler_counts,*)
(* the delta header of run_metal_test and print_throttler_counts.          *)
(***************************************************************************)
\* the most chips pyluwen.detect_chips() finds: one more than a galaxy has
MaxDetected == 33

\* print_throttler_counts: what reaches the console.  no_counts: the line
\* "no counts to display."; tables: the chips a table is printed for, with
\* the rows of the table; flagged: the chips printed as "Data is missing or
\* corrupted."
print_throttler_counts(before, after) ==
    LET is_delta_mode == after.some /\ DOMAIN after.val # {} IN
    IF ~before.some \/ DOMAIN before.val = {}
    THEN [no_counts |-> TRUE, tables |-> << >>, flagged |-> {}]
    ELSE LET all_chip_ids == IF is_delta_mode
                             THEN DOMAIN before.val \cup DOMAIN after.val
                             ELSE DOMAIN before.val
             with_before == {id \in all_chip_ids : id \in DOMAIN before.val}
             missing == IF is_delta_mode
                        THEN {id \in with_before : id \notin DOMAIN after.val}
                        ELSE {}
             row(id, i) ==
                 LET name == throttler_name[i]
                     b == before.val[id][name]
                 IN IF is_delta_mode
                    THEN << name, b, after.val[id][name], after.val[id][name] - b >>
                    ELSE << name, b >>
         IN [no_counts |-> FALSE,
             tables |-> [id \in with_before \ missing |->
                           [i \in 1..NUM_THROTTLERS |-> row(id, i)]],
             flagged |-> missing]

\* the snapshots read_throttler_counts can return
Snapshots ==
    {read_throttler_counts(pt, max_chips(pt), FALSE, events).val :
        pt \in product_types, events \in 0..MaxCount}

\* read_throttler_counts on some product, with some number of chips found
apply_read ==
    /\ call = NoCall
    /\ \E pt \in product_types, detected \in 0..MaxDetected,
          raises \in BOOLEAN, events \in 0..MaxCount :
         call' = [op |-> "read", pt |-> pt, detected |-> detected,
                  raises |-> raises, events |-> events,
                  result |-> read_throttler_counts(pt, detected, raises, events)]
    /\ UNCHANGED << mainvars, clock, runs, fs >>

\* the delta block of run_metal_test and print_throttler_counts on two
\* snapshots
apply_reconcile ==
    /\ call = NoCall
    /\ \E before \in Snapshots, after \in Snapshots :
         LET chip_ids == sorted(DOMAIN before \cup DOMAIN after)
             lines == delta_lines(chip_ids, before, after)
         IN call' = [op |-> "reconcile", before |-> before, after |-> after,
                     lines |-> lines, header |-> final_header(lines),
                     printed |-> print_throttler_counts(Some(before), Some(after))]
    /\ UNCHANGED << mainvars, clock, runs, fs >>

PureInit ==
    /\ MainInit
    /\ arg = "all" /\ model = "wan" /\ product_type = "p150"
    /\ timeout_min4 = 1 /\ wlForever = FALSE
    /\ call = NoCall
    /\ clock = 0
    /\ runs = << >>
    /\ fs = << >>

PureNext ==
    \/ apply_read
    \/ apply_reconcile

PureSpec == PureInit /\ [][PureNext]_vars

\* C13: the snapshot read is all-or-nothing and strict.  read_throttler_counts
\* returns a snapshot exactly when the number of chips detected is the number
\* the product has (p150: 1, p300: 2, galaxy: 32) and no read raised; the
\* snapshot then has the chips 0..N-1, each with exactly the ten throttler
\* names; in every other case it returns None, never a part of a snapshot.
C13_ReadAllOrNothing ==
    call.op = "read" =>
        LET N == CASE call.pt = "p150" -> 1
                   [] call.pt = "p300" -> 2
                   [] call.pt = "galaxy" -> 32
            ok == call.detected = N /\ ~call.raises
        IN /\ call.result.some <=> ok
           /\ ok => /\ DOMAIN call.result.val = 0..(N - 1)
                    /\ \A d \in 0..(N - 1) :
                         DOMAIN call.result.val[d] =
                           {"Fmax", "TDP", "FastTDC", "TDC", "Thm", "BoardPower",
                            "Voltage", "GDDRThm", "DopplerSlow", "DopplerCritical"}
           /\ ~ok => call.result = None

\* a galaxy is read in full: 32 chips
C13_Witness ==
    /\ call.op = "read"
    /\ call.pt = "galaxy"
    /\ call.detected = 32
    /\ ~call.raises
    /\ call.result.some
    /\ Cardinality(DOMAIN call.result.val) = 32

WorkloadLinesOf(f) == SelectSeq(f, LAMBDA l : l.k = "out")

\* C16 as stated: at every moment the workload lines of docker_output.log are
\* a prefix of the lines the workload has produced so far, line for line.
C16_LogIsPrefix ==
    LET outs == WorkloadLinesOf(log) IN
        /\ Len(outs) <= produced
        /\ \A p \in 1..Len(outs) : outs[p] = WorkloadLine(p)

\* C16, amended: the workload lines of docker_output.log are, in order and
\* with none twice or left out, the first lines the workload produced, each
\* equal to the produced line but for trailing white space (readline's lines
\* are written after rstrip, the rest of the stream as it is); and whenever
\* the loop is about to read from the stream, every line taken from it so
\* far is in the log.
C16_LogOrder ==
    LET outs == WorkloadLinesOf(log) IN
        /\ Len(outs) <= produced
        /\ \A p \in 1..Len(outs) : rstrip(outs[p]) = rstrip(WorkloadLine(p))
        /\ (pc \in {"l_readline", "l_read"}
              => Len(outs) + Len(pipe) = produced)

\* the loop has read the first line, which lost its trailing white space,
\* and then the rest of the stream
C16_Witness ==
    LET outs == WorkloadLinesOf(log) IN
        /\ Running
        /\ Len(outs) = 2
        /\ WorkloadLine(1).ws
        /\ ~outs[1].ws

\* C17: the publication of the delta is a clean prepend.  The step that
\* writes the delta header puts in front of the previous content of
\* docker_output.log, which it leaves as it was, exactly one header line per
\* chip of both snapshots, in ascending order of the chips, and no other or
\* empty line: N lines for N chips.
C17_CleanPrepend ==
    [][(published' /\ ~published) =>
          LET n == Len(log') - Len(log)
              block == SubSeq(log', 1, n)
          IN /\ n = max_chips(product_type)
             /\ \A p \in 1..n : block[p].k = "hdr" /\ block[p].n = p - 1
             /\ SubSeq(log', n + 1, Len(log')) = log
      ]_vars

\* C18: the log is complete on completion.  The loop is never left on "the
\* process has exited" while output of the workload is unread in the stream,
\* and once run_metal_test has returned after a workload that exited on its
\* own, every line the workload produced is in docker_output.log.
C18_LogComplete ==
    Completed =>
        /\ pipe = << >>
        /\ (LeftRun => Len(WorkloadLinesOf(log)) = produced)

\* C19: warm-up ordering.  The workload is launched at time 0.  A sidecar
\* exists only if the workload was launched and the whole warm-up (45 s for
\* wan, 20 s otherwise) has gone by; the deadline clock starts after the
\* warm-up, and after the 2 s check of the sidecar where one was started;
\* and the timeout branch is taken only when more than
\* timeout minutes * 60 - warm-up seconds have passed since the clock start.
C19_WarmupOrdering ==
    LET warmup == IF model = "wan" THEN 45 ELSE 20
        deadline == ((timeout_min4 * 60) \div 4) - warmup
    IN /\ (sidecar # "none" => (docker_process # "None" /\ now >= warmup))
       /\ (pc \in LoopPcs =>
             start_time >= warmup + (IF sidecar # "none" THEN 2 ELSE 0))
       /\ (TimedOut => now - start_time > deadline)

\* the sidecar was started after the warm-up and confirmed, the clock was
\* started 2 s later and the deadline then fired
C19_Witness ==
    /\ TimedOut
    /\ confirmed
    /\ docker_process # "None"
    /\ start_time = (IF model = "wan" THEN 45 ELSE 20) + 2

\* C20: mode gating.  A sidecar is launched or signalled only in the modes
\* all and read_telemetry.  The snapshots around the run are read and the
\* delta header is written only in the modes all and read_throttler_count:
\* in read_telemetry no snapshot is read and the log gets no header.  In
\* get_throttler_count the one snapshot of the mode is read and nothing else
\* happens: no workload, no sidecar, no run directory, no counter reset.
C20_ModeGating ==
    /\ (arg \notin {"all", "read_telemetry"} =>
          /\ sidecar = "none"
          /\ telem_proc = "None"
          /\ ~scSigint /\ ~scKill)
    /\ (arg \notin {"all", "read_throttler_count"} =>
          /\ ~published
          /\ \A p \in 1..Len(log) : log[p].k \in {"cmd", "out"}
          /\ ~main_before.some /\ ~before_counts.some)
    /\ (arg = "read_telemetry" => readCount = 0)
    /\ (arg = "get_throttler_count" =>
          /\ readCount <= 1
          /\ docker_process = "None"
          /\ sidecar = "none"
          /\ run_dir = "None"
          /\ log = << >>
          /\ resetCount = 0)

\* a read_telemetry run at its end: the sidecar was run and stopped, no
\* snapshot was read and the log was left as the loop wrote it
C20_Witness ==
    /\ arg = "read_telemetry"
    /\ pc = "exited" /\ exitWhy = "done"
    /\ confirmed /\ scSigint
    /\ run_dir = "created"
    /\ readCount = 0
    /\ Len(log) >= 2

====
